---- MODULE Spec2Model ----
(***************************************************************************)
(* Negative sampler of kge/util/sampler.py: construction of a KgeSampler   *)
(* (KgeUniformSampler or KgeFrequencySampler), the sample operation, and   *)
(* the two filter-and-resample loops (standard and numba "fast").          *)
(*                                                                         *)
(* Slots keep the source's numbering 0, 1, 2.  Tensors are sequences, so a *)
(* column j of the source is position j + 1 here, and a matrix is a        *)
(* sequence of rows.                                                       *)
(***************************************************************************)
EXTENDS Integers, Sequences, FiniteSets, TLC

\* ---------------------------------------------------------------- bounds
MaxBatch == 2
MaxSamples == 2
NumThreads == 2

\* ------------------------------------------------------ module constants
S == 0
P == 1
O == 2
SLOTS == {S, P, O}

Strategies == {"uniform", "frequency"}
Implementations == {"standard", "fast", "fast_if_available"}
\* Python's None, as an integer that is neither a slot nor a sample count.
None == -1

\* --------------------------------------------------------------- dataset
\* dataset.num_entities() and dataset.num_relations(): the entities and
\* relations that occur in the triples of the split.
NumEntities == 2
NumRelations == 1
\* num_entities() of a dataset with one entity that occurs in no triple.
WideEntities == 3
\* The split the indexes are built on: filtering.split is "", so train.split.
FilteringSplit == "train"
\* frequency.smoothing
Alpha == 1

Entities == 0 .. (NumEntities - 1)
Relations == 0 .. (NumRelations - 1)
Triples ==
  {t \in [SLOTS -> Entities \cup Relations] :
     t[S] \in Entities /\ t[P] \in Relations /\ t[O] \in Entities}

\* The triples of the filtering split: the known positives.
KG == {t \in Triples : t[S] <= t[O]}

\* index(name).get(key) of the positive-pair index "{split}_{pair}_to_{slot}":
\* the values at `slot` of the split's triples that carry `key` at the other
\* two positions.
IndexGet(slot, key) ==
  {t[slot] : t \in {u \in KG : \A c \in 1 .. 2 : u[key.cols[c]] = key.vals[c]}}

\* where_in(x, y, not_in): the positions of x whose value is in y (not in y
\* when not_in), in increasing order.
where_in(x, y, not_in) ==
  LET keep(j) == (x[j] \in y) # not_in
      F[k \in 0 .. Len(x)] ==
        IF k = 0 THEN << >>
        ELSE IF keep(k) THEN Append(F[k - 1], k) ELSE F[k - 1]
  IN F[Len(x)]

\* ---------------------------------------------------------- construction
VocabularySizeSwapped(slot, entities) == IF slot = P THEN entities ELSE NumRelations

\* vocabulary_size[slot], on a dataset of `entities` entities
VocabularySize(slot, entities) == IF slot = P THEN NumRelations ELSE entities

\* pair = ["po", "so", "sp"][slot]; f"{self.filtering_split}_{pair}_to_{slot_str}"
IndexName(slot) ==
  <<FilteringSplit,
    IF slot = S THEN "po" ELSE IF slot = P THEN "so" ELSE "sp",
    IF slot = S THEN "s" ELSE IF slot = P THEN "p" ELSE "o">>

RequestedForAll(filtering) == {IndexName(slot) : slot \in SLOTS}

\* The indexes __init__ asks the dataset for.
RequestedIndexes(filtering) == {IndexName(slot) : slot \in {sl \in SLOTS : filtering[sl]}}

\* smoothed_counts of a slot: np.bincount(split[:, slot], minlength=voc) + alpha
Multinomial(slot, voc) ==
  [v \in 1 .. voc |-> Cardinality({t \in KG : t[slot] = v - 1}) + Alpha]

AnyFilter(config) == \E slot \in SLOTS : config.filtering[slot]

ConfigErrorNoSharedCheck(config) ==
  IF AnyFilter(config) /\ config.implementation \notin Implementations
  THEN "ValueError:implementation"
  ELSE "none"

ConfigErrorNoImplCheck(config) ==
  IF AnyFilter(config) /\ config.shared THEN "ValueError:shared" ELSE "none"

\* The error __init__ raises, or "none".
ConfigError(config) ==
  IF AnyFilter(config)
  THEN IF config.shared THEN "ValueError:shared"
       ELSE IF config.implementation \notin Implementations
            THEN "ValueError:implementation"
            ELSE "none"
  ELSE "none"

AutoSlotUnchecked(ns, slot, copy_from) ==
  IF ns[slot] < 0
  THEN IF copy_from # None
       THEN [ns EXCEPT ![slot] = ns[copy_from]]
       ELSE [ns EXCEPT ![slot] = 0]
  ELSE ns

\* One round of the auto config loop: for slot, copy_from in
\* [(S, O), (P, None), (O, S)].
AutoSlot(ns, slot, copy_from) ==
  IF ns[slot] < 0
  THEN IF copy_from # None /\ ns[copy_from] > 0
       THEN [ns EXCEPT ![slot] = ns[copy_from]]
       ELSE [ns EXCEPT ![slot] = 0]
  ELSE ns

\* The auto config loop, in its order.
AutoConfig(ns) == AutoSlot(AutoSlot(AutoSlot(ns, S, O), P, None), O, S)

\* -------------------------------------------------------------- sampling
\* Every matrix torch.randint(vocabulary_size[slot], (b, n)) can return.
UniformSample(voc, b, n) == [1 .. b -> [1 .. n -> 0 .. (voc - 1)]]

\* Every matrix the alias draw can return (smoothing > 0: each value of the
\* vocabulary has positive probability); the empty matrix when n = 0.
FrequencySample(voc, b, n) ==
  IF n = 0 THEN {[i \in 1 .. b |-> << >>]}
  ELSE [1 .. b -> [1 .. n -> 0 .. (voc - 1)]]

\* The number of values the strategy draws for a matrix of `rows` rows.
RawDrawCount(strategy, rows, n) ==
  IF strategy = "frequency" /\ n = 0 THEN 0 ELSE rows * n

NumSamplesOfFalsy(arg, default) == IF arg = None \/ arg = 0 THEN default ELSE arg

\* if num_samples is None: num_samples = self.num_samples[slot]
NumSamplesOf(arg, default) == IF arg = None THEN default ELSE arg

\* The branch of sample that filters, from the two reads of filter_implementation.
Branch(filtered, impl) ==
  IF ~filtered THEN "none"
  ELSE IF impl = "fast" THEN "fast"
  ELSE IF impl = "standard" THEN "standard"
  ELSE "try"

PathFallback(br, strategy) ==
  IF br = "none" THEN "none"
  ELSE IF br = "standard" THEN "standard"
  ELSE IF strategy = "uniform" THEN "fast"
  ELSE "standard"

\* The loop a branch runs: KgeSampler._filter_and_resample_fast raises
\* NotImplementedError, which only the "try" branch catches.
Path(br, strategy) ==
  IF br = "none" THEN "none"
  ELSE IF br = "standard" THEN "standard"
  ELSE IF strategy = "uniform" THEN "fast"
  ELSE IF br = "try" THEN "standard" ELSE "none"

SampleOf(strategy, voc, b, n) ==
  IF strategy = "uniform" THEN UniformSample(voc, b, n)
  ELSE FrequencySample(voc, b, n)

SharedSampleNotExpanded(strategy, voc, b, n) == SampleOf(strategy, voc, 1, n)

SharedSampleIndependent(strategy, voc, b, n) == SampleOf(strategy, voc, b, n)

\* _sample_shared(...).expand(batch_size, num_samples)
SharedSampleOf(strategy, voc, b, n) ==
  {[i \in 1 .. b |-> m[1]] : m \in SampleOf(strategy, voc, 1, n)}

\* cols = [[P, O], [S, O], [S, P]][slot]; pairs[i] = positive_triples[i, cols]
PositiveKey(slot, triple) ==
  LET cols == IF slot = S THEN <<P, O>> ELSE IF slot = P THEN <<S, O>> ELSE <<S, P>>
  IN [cols |-> cols, vals |-> <<triple[cols[1]], triple[cols[2]]>>]

\* The index _filter_and_resample and _filter_and_resample_fast open.
FilterIndexName(slot) ==
  <<FilteringSplit,
    IF slot = S THEN "po" ELSE IF slot = P THEN "so" ELSE "sp",
    IF slot = S THEN "s" ELSE IF slot = P THEN "p" ELSE "o">>

NoQuery == [name |-> << >>, key |-> << >>]

Positives(slot, triple) == IndexGet(slot, PositiveKey(slot, triple))

TrueNegativesInverted(new_samples, positives) == where_in(new_samples, positives, FALSE)

TrueNegativesAll(new_samples, positives) == where_in(new_samples, {}, TRUE)

\* tn_idx = where_in(new_samples, positives, not_in=True)
TrueNegatives(new_samples, positives) == where_in(new_samples, positives, TRUE)

StandardWriteCtr(row, ridx, found, new_samples, tn_idx) ==
  [j \in 1 .. Len(row) |->
     IF \E k \in 1 .. Len(tn_idx) : ridx[found + k] = j
     THEN new_samples[CHOOSE k \in 1 .. Len(tn_idx) : ridx[found + k] = j]
     ELSE row[j]]

StandardWriteDense(row, ridx, found, new_samples, tn_idx) ==
  [j \in 1 .. Len(row) |->
     IF j \in (found + 1) .. (found + Len(tn_idx))
     THEN new_samples[tn_idx[j - found]]
     ELSE row[j]]

StandardWriteReversed(row, ridx, found, new_samples, tn_idx) ==
  [j \in 1 .. Len(row) |->
     IF \E k \in 1 .. Len(tn_idx) : ridx[found + k] = j
     THEN new_samples[tn_idx[Len(tn_idx) + 1
                             - CHOOSE k \in 1 .. Len(tn_idx) : ridx[found + k] = j]]
     ELSE row[j]]

\* negative_samples[i, resample_idx[num_found : num_found + len(tn_idx)]]
\*   = new_samples[tn_idx]
StandardWrite(row, ridx, found, new_samples, tn_idx) ==
  [j \in 1 .. Len(row) |->
     IF \E k \in 1 .. Len(tn_idx) : ridx[found + k] = j
     THEN new_samples[tn_idx[CHOOSE k \in 1 .. Len(tn_idx) : ridx[found + k] = j]]
     ELSE row[j]]

\* for j in resample_idx[num_found : num_found + len(idx)]:
\*     negative_samples[i, j] = new_samples[ctr]; ctr += 1
FastWrite(row, ridx, found, new_samples, idx) ==
  [j \in 1 .. Len(row) |->
     IF \E k \in 1 .. Len(idx) : ridx[found + k] = j
     THEN new_samples[CHOOSE k \in 1 .. Len(idx) : ridx[found + k] = j]
     ELSE row[j]]

Forget(br, pt, impl) == impl

RememberFast(br, pt, impl) == "fast"

RememberTried(br, pt, impl) == IF br = "try" THEN "fast" ELSE impl

RememberSwapped(br, pt, impl) ==
  IF br = "try" THEN (IF pt = "fast" THEN "standard" ELSE "fast") ELSE impl

\* self.filter_implementation after the filter returned: the branch that tried
\* the fast path remembers the implementation that ran.
Remember(br, pt, impl) == IF br = "try" THEN pt ELSE impl

\* ----------------------------------------------------------------- state
VARIABLES
  config,                \* the options the sampler is constructed from
  num_entities,          \* num_entities() of the dataset it is constructed on
  requested,             \* the index names __init__ asked the dataset for
  multinomials,          \* per slot the table of the alias draw (frequency)
  pc,                    \* "new", "config_error", "ready", "filter", "returned",
                         \* "raised" (sample raised NotImplementedError)
  strategy,              \* the class of the sampler
  shared, num_samples, filter_positives, vocabulary_size,
  filter_implementation, \* "unset" until __init__ assigns it
  slot, arg_num_samples, positive_triples,   \* arguments of the current call
  negative_samples,      \* the matrix of the current call
  branch,                \* branch of sample that filters: "none", "fast", "standard", "try"
  path,                  \* loop that runs: "none", "standard" or "fast"
  fast_tried,            \* the call invoked _filter_and_resample_fast
  raw_drawn,             \* values the strategy drew for the raw matrix
  i, resample_idx, num_new, num_found, num_remaining,
  index_query,           \* name and key of the index lookup of row i
  tpc,                   \* per thread the line of sample its call is at
  tused                  \* per thread the filter loop its call ran

fields == <<strategy, shared, num_samples, filter_positives, vocabulary_size,
            multinomials, requested>>
sampler == <<fields, filter_implementation>>
call == <<slot, arg_num_samples, positive_triples, negative_samples, branch, path,
          fast_tried, raw_drawn>>
loop == <<i, resample_idx, num_new, num_found, num_remaining, index_query>>
threads == <<tpc, tused>>
vars == <<config, num_entities, pc, sampler, call, loop, threads>>

\* The threads that call sample on one sampler.
Threads == 1 .. NumThreads

AllConfigs ==
  [strategy : Strategies, shared : BOOLEAN, filtering : [SLOTS -> BOOLEAN],
   implementation : Implementations \cup {"other"},
   num_samples : [SLOTS -> -2 .. MaxSamples]]

\* The configurations sample is explored from: no slot, every slot or the
\* predicate slot filtered, the subject count derived from the object count.
SampleConfigs ==
  {c \in AllConfigs :
     /\ c.filtering \in {[s \in SLOTS |-> FALSE], [s \in SLOTS |-> TRUE],
                         [s \in SLOTS |-> s = P]}
     /\ c.num_samples = (S :> -1 @@ P :> 1 @@ O :> MaxSamples)
     /\ (~AnyFilter(c) => c.implementation = "fast_if_available")}

\* The rows of a batch: a fact that every slot's positives cover, and triples
\* of another split that are no facts of the filtering split.
BatchTriples == {t \in Triples : t[S] # t[O]}

Batches == UNION {[1 .. b -> BatchTriples] : b \in 1 .. MaxBatch}

Unconstructed(c) ==
  /\ config = c
  /\ pc = "new"
  /\ requested = {}
  /\ multinomials = [s \in SLOTS |-> << >>]
  /\ raw_drawn = 0
  /\ index_query = NoQuery
  /\ tpc = [t \in Threads |-> "idle"]
  /\ tused = [t \in Threads |-> "none"]
  /\ strategy = c.strategy
  /\ shared = FALSE
  /\ num_samples = [s \in SLOTS |-> 0]
  /\ filter_positives = [s \in SLOTS |-> FALSE]
  /\ vocabulary_size = [s \in SLOTS |-> 0]
  /\ filter_implementation = "unset"
  /\ slot = S /\ arg_num_samples = None /\ positive_triples = << >>
  /\ negative_samples = << >>
  /\ branch = "none" /\ path = "none" /\ fast_tried = FALSE
  /\ i = 0 /\ resample_idx = << >> /\ num_new = 0 /\ num_found = 0
  /\ num_remaining = 0

Init == num_entities = NumEntities /\ \E c \in SampleConfigs : Unconstructed(c)

InitConstruct == num_entities = NumEntities /\ \E c \in AllConfigs : Unconstructed(c)

\* KgeSampler.__init__, and KgeFrequencySampler.__init__ after it
Construct ==
  /\ pc = "new"
  /\ shared' = config.shared
  /\ filter_positives' = config.filtering
  /\ vocabulary_size' = [s \in SLOTS |-> VocabularySize(s, num_entities)]
  /\ requested' = RequestedIndexes(config.filtering)
  /\ multinomials' =
       IF ConfigError(config) = "none" /\ strategy = "frequency"
       THEN [s \in SLOTS |-> Multinomial(s, VocabularySize(s, num_entities))]
       ELSE multinomials
  /\ IF ConfigError(config) # "none"
     THEN /\ pc' = "config_error"
          /\ num_samples' = config.num_samples
          /\ UNCHANGED filter_implementation
     ELSE /\ pc' = "ready"
          /\ num_samples' = AutoConfig(config.num_samples)
          /\ filter_implementation' =
               IF AnyFilter(config) THEN config.implementation ELSE "unset"
  /\ UNCHANGED <<config, num_entities, threads, strategy, call, loop>>

\* The vocabulary the strategy draws a slot's values from.
DrawVoc(sl) ==
  IF strategy = "frequency" THEN Len(multinomials[sl]) ELSE vocabulary_size[sl]

\* KgeSampler.sample up to the entry of a filter loop (or to its end when the
\* slot is not filtered or the fast path is not implemented).
Sample(sl, arg, batch) ==
  /\ pc = "ready"
  /\ LET n == NumSamplesOf(arg, num_samples[sl])
         b == Len(batch)
         raw == IF shared
                THEN SharedSampleOf(strategy, DrawVoc(sl), b, n)
                ELSE SampleOf(strategy, DrawVoc(sl), b, n)
         br == Branch(filter_positives[sl], filter_implementation)
         tried == br \in {"fast", "try"}
         pt == Path(br, strategy)
     IN /\ \E m \in raw : negative_samples' = m
        /\ raw_drawn' = RawDrawCount(strategy, IF shared THEN 1 ELSE b, n)
        /\ slot' = sl /\ arg_num_samples' = arg /\ positive_triples' = batch
        /\ branch' = br /\ fast_tried' = tried /\ path' = pt
        /\ pc' = IF pt # "none" THEN "filter"
                 ELSE IF br = "fast" THEN "raised" ELSE "returned"
  /\ i' = 0 /\ resample_idx' = << >> /\ num_new' = 0 /\ num_found' = 0
  /\ num_remaining' = 0 /\ index_query' = NoQuery
  /\ UNCHANGED <<config, num_entities, threads, sampler>>

\* Head of the loop over the rows: where_in of row i against its positives.
NextRow ==
  /\ pc = "filter" /\ num_remaining = 0 /\ i < Len(positive_triples)
  /\ i' = i + 1
  /\ LET ridx == where_in(negative_samples[i + 1],
                          Positives(slot, positive_triples[i + 1]), FALSE)
     IN /\ resample_idx' = ridx
        /\ num_new' = Len(ridx)
        /\ num_found' = 0
        /\ num_remaining' = Len(ridx)
  /\ index_query' = [name |-> FilterIndexName(slot),
                     key |-> PositiveKey(slot, positive_triples[i + 1]).vals]
  /\ UNCHANGED <<config, num_entities, threads, pc, sampler, call>>

\* One iteration of `while num_remaining`, drawing new_samples.
Resample(new_samples) ==
  /\ pc = "filter" /\ num_remaining # 0
  /\ LET positives == Positives(slot, positive_triples[i])
         idx == TrueNegatives(new_samples, positives)
     IN IF Len(idx) # 0
        THEN /\ negative_samples' =
                  [negative_samples EXCEPT ![i] =
                     IF path = "standard"
                     THEN StandardWrite(@, resample_idx, num_found, new_samples, idx)
                     ELSE FastWrite(@, resample_idx, num_found, new_samples, idx)]
             /\ num_found' = num_found + Len(idx)
             /\ num_remaining' = num_new - (num_found + Len(idx))
        ELSE UNCHANGED <<negative_samples, num_found, num_remaining>>
  /\ UNCHANGED <<config, num_entities, threads, pc, sampler, slot, arg_num_samples,
                 positive_triples, branch, path, fast_tried, raw_drawn, i,
                 resample_idx, num_new, index_query>>

Draws == [1 .. num_remaining -> 0 .. (DrawVoc(slot) - 1)]

ResampleStep == \E new_samples \in Draws : Resample(new_samples)

\* The filter loop is over: sample remembers the implementation and returns.
Return ==
  /\ pc = "filter" /\ num_remaining = 0 /\ i = Len(positive_triples)
  /\ pc' = "returned"
  /\ filter_implementation' = Remember(branch, path, filter_implementation)
  /\ UNCHANGED <<config, num_entities, threads, fields, call, loop>>

\* The call is over: its frame is dropped and the sampler can be called again.
Release ==
  /\ pc \in {"returned", "raised"}
  /\ pc' = "ready"
  /\ slot' = S /\ arg_num_samples' = None /\ positive_triples' = << >>
  /\ negative_samples' = << >>
  /\ branch' = "none" /\ path' = "none" /\ fast_tried' = FALSE /\ raw_drawn' = 0
  /\ i' = 0 /\ resample_idx' = << >> /\ num_new' = 0 /\ num_found' = 0
  /\ num_remaining' = 0 /\ index_query' = NoQuery
  /\ UNCHANGED <<config, num_entities, threads, sampler>>

SampleCall ==
  \E sl \in SLOTS, arg \in {None} \cup (0 .. MaxSamples), batch \in Batches :
    Sample(sl, arg, batch)

Next == Construct \/ SampleCall \/ NextRow \/ ResampleStep \/ Return \/ Release

Spec == Init /\ [][Next]_vars

\* A draw whose candidates are all outside the row's positives.
CleanResample ==
  \E new_samples \in Draws :
    /\ \A k \in 1 .. Len(new_samples) :
         new_samples[k] \notin IndexGet(slot, PositiveKey(slot, positive_triples[i]))
    /\ Resample(new_samples)

\* The samplers termination is explored from: unshared, the subject slot
\* filtered, the implementation given explicitly.
InitFair ==
  /\ num_entities = NumEntities
  /\ \E c \in AllConfigs :
       /\ ~c.shared /\ c.filtering = [s \in SLOTS |-> s = S]
       /\ c.implementation \in {"standard", "fast"}
       /\ c.num_samples = (S :> -1 @@ P :> 1 @@ O :> MaxSamples)
       /\ Unconstructed(c)

\* Fair random draws: the loop keeps running and a clean draw eventually comes.
FairSpec ==
  InitFair /\ [][Next]_vars /\ WF_vars(NextRow) /\ WF_vars(Return) /\ WF_vars(CleanResample)

\* The loops on a dataset whose vocabulary has an entity outside every row's
\* positives: unshared samplers that filter the subject slot, called for it.
WideConfigs ==
  {c \in AllConfigs :
     /\ ~c.shared /\ c.filtering = [s \in SLOTS |-> s = S]
     /\ c.implementation \in {"standard", "fast"}
     /\ c.num_samples = (S :> -1 @@ P :> 1 @@ O :> MaxSamples)}

InitWide == num_entities = WideEntities /\ \E c \in WideConfigs : Unconstructed(c)

\* Batches of one row and of two rows.
WideBatches ==
  {<<t>> : t \in BatchTriples} \cup {<<t, u>> : t \in BatchTriples, u \in BatchTriples}

WideCall ==
  \E arg \in {None} \cup (0 .. MaxSamples), batch \in WideBatches :
    Sample(S, arg, batch)

NextWide == Construct \/ WideCall \/ NextRow \/ ResampleStep \/ Return \/ Release

WideSpec == InitWide /\ [][NextWide]_vars

\* Threads that call sample on one sampler.  A call is cut at its reads and
\* its write of filter_implementation; the matrices of a call are local to its
\* thread, so a filter loop is one step.
ThreadConfigs ==
  {c \in SampleConfigs : ~c.shared /\ AnyFilter(c)}

InitThreads == num_entities = NumEntities /\ \E c \in ThreadConfigs : Unconstructed(c)

\* Lines 88-96: the raw matrix is drawn; an unfiltered slot returns it.
TCall(t) ==
  /\ pc = "ready" /\ tpc[t] = "idle"
  /\ \E sl \in SLOTS :
       tpc' = [tpc EXCEPT ![t] = IF filter_positives[sl] THEN "l97" ELSE "returned"]
  /\ UNCHANGED <<config, num_entities, pc, sampler, call, loop, tused>>

\* Line 97: if self.filter_implementation == "fast"
TRead97(t) ==
  /\ tpc[t] = "l97"
  /\ tpc' = [tpc EXCEPT ![t] = IF filter_implementation = "fast" THEN "fast" ELSE "l101"]
  /\ UNCHANGED <<config, num_entities, pc, sampler, call, loop, tused>>

\* Line 101: elif self.filter_implementation == "standard"
TRead101(t) ==
  /\ tpc[t] = "l101"
  /\ tpc' = [tpc EXCEPT ![t] =
               IF filter_implementation = "standard" THEN "standard" ELSE "try"]
  /\ UNCHANGED <<config, num_entities, pc, sampler, call, loop, tused>>

\* The filter of the branch runs: lines 98-99, 102-103, or 106-109 and 112-114.
TFilter(t) ==
  /\ tpc[t] \in {"fast", "standard", "try"}
  /\ LET pt == Path(tpc[t], strategy)
     IN /\ tused' = [tused EXCEPT ![t] = pt]
        /\ tpc' = [tpc EXCEPT ![t] = IF pt = "none" THEN "raised"
                                     ELSE IF tpc[t] = "try" THEN "write"
                                     ELSE "returned"]
  /\ UNCHANGED <<config, num_entities, pc, sampler, call, loop>>

\* Line 110 or 115: the branch that tried remembers the loop that ran.
TWrite(t) ==
  /\ tpc[t] = "write"
  /\ filter_implementation' = Remember("try", tused[t], filter_implementation)
  /\ tpc' = [tpc EXCEPT ![t] = "returned"]
  /\ UNCHANGED <<config, num_entities, pc, fields, call, loop, tused>>

\* The call of the thread is over.
TRelease(t) ==
  /\ tpc[t] \in {"returned", "raised"}
  /\ tpc' = [tpc EXCEPT ![t] = "idle"]
  /\ tused' = [tused EXCEPT ![t] = "none"]
  /\ UNCHANGED <<config, num_entities, pc, sampler, call, loop>>

NextThreads ==
  \/ Construct
  \/ \E t \in Threads : TCall(t)
  \/ \E t \in Threads : TRead97(t)
  \/ \E t \in Threads : TRead101(t)
  \/ \E t \in Threads : TFilter(t)
  \/ \E t \in Threads : TWrite(t)
  \/ \E t \in Threads : TRelease(t)

ThreadSpec == InitThreads /\ [][NextThreads]_vars

SpecConstruct == InitConstruct /\ [][Construct]_vars

\* ---------------------------------------------------------------- claims
\* num_samples of the current call: the argument, or the slot's default.
CallNumSamples == IF arg_num_samples = None THEN num_samples[slot] ELSE arg_num_samples

\* P_i of the current call: the index's answer for row r of the batch.
RowPositives(r) == IndexGet(slot, PositiveKey(slot, positive_triples[r]))

\* The vocabulary of the current call's slot covers row r's positives.
FullRow(r) ==
  \A v \in 0 .. (vocabulary_size[slot] - 1) : v \in RowPositives(r)

NoCollision ==
  \A r \in 1 .. Len(negative_samples) :
    \A j \in 1 .. Len(negative_samples[r]) : negative_samples[r][j] \notin RowPositives(r)

\* C1: when the standard filter (_filter_and_resample) has returned, no entry
\* of any row i of the matrix is a member of P_i.
C1_StandardNoCollision == (pc = "returned" /\ path = "standard") => NoCollision

\* A standard filter returned a two-row batch whose last row had two collisions.
C1_Witness ==
  /\ pc = "returned" /\ path = "standard"
  /\ Len(positive_triples) = 2 /\ num_new = 2 /\ num_found = 2

\* C2: when the fast filter (_filter_and_resample_numba) has returned, no entry
\* of any row i of the matrix is a member of P_i.
C2_FastNoCollision == (pc = "returned" /\ path = "fast") => NoCollision

\* C3: under fair draws, a filter loop (standard or fast) over a batch in which
\* every row's positives are a strict subset of the slot's vocabulary reaches
\* its end with no unresolved position, and sample returns.
C3_Termination ==
  (pc = "filter" /\ \A r \in 1 .. Len(positive_triples) : ~FullRow(r))
    ~> (pc = "returned" /\ num_remaining = 0 /\ i = Len(positive_triples))

\* A filter over a two-row batch of strict rows with collisions has returned.
C3_Witness ==
  /\ pc = "returned" /\ path # "none" /\ Len(positive_triples) = 2
  /\ \A r \in 1 .. 2 : ~FullRow(r)
  /\ num_new > 0 /\ num_found = num_new

\* C4: a call that runs a filter loop with num_samples > 0 on a batch with a
\* row whose positives cover the whole vocabulary never leaves the loop: it
\* neither returns nor raises, and never gets past the first such row.
C4_FullRowNeverReturns ==
  (path # "none" /\ CallNumSamples > 0 /\ \E r \in 1 .. Len(positive_triples) : FullRow(r))
    => /\ pc = "filter"
       /\ \E r \in 1 .. Len(positive_triples) : FullRow(r) /\ i <= r
       /\ (i > 0 /\ FullRow(i) => num_found = 0 /\ num_remaining = CallNumSamples)

\* The loop has resolved a first row with collisions and sits in a covered second row.
C4_Witness ==
  /\ pc = "filter" /\ i = 2 /\ FullRow(2) /\ ~FullRow(1)
  /\ num_remaining = 2 /\ negative_samples[1] \in [1 .. 2 -> {1}]

\* C5: on a frequency sampler configured with fast_if_available, a filtering
\* call that returns leaves the remembered implementation at standard, and
\* from then on it stays standard and no call invokes the fast path; the fast
\* loop never runs.
C5_FallbackIdempotent ==
  [][(strategy = "frequency" /\ config.implementation = "fast_if_available") =>
        /\ (pc = "filter" /\ pc' = "returned" => filter_implementation' = "standard")
        /\ (filter_implementation = "standard" =>
              filter_implementation' = "standard" /\ ~fast_tried')
        /\ path' # "fast"]_vars

\* A later call of such a sampler went straight to the standard filter.
C5_Witness ==
  /\ strategy = "frequency" /\ config.implementation = "fast_if_available"
  /\ pc = "returned" /\ branch = "standard" /\ ~fast_tried
  /\ filter_implementation = "standard" /\ num_new > 0

\* C6: constructing with shared sampling and filtering of some slot fails; no
\* constructed sampler is shared and filters a slot, and no filter runs on a
\* shared matrix.
C6_SharedExcludesFiltering ==
  /\ (pc # "new" /\ config.shared /\ \E sl \in SLOTS : config.filtering[sl])
       => pc = "config_error"
  /\ pc \notin {"new", "config_error"}
       => ~(shared /\ \E sl \in SLOTS : filter_positives[sl])
  /\ (pc = "filter" \/ path # "none" \/ fast_tried) => ~shared

\* Construction with shared sampling and a filtered slot has failed.
C6_Witness ==
  /\ pc = "config_error" /\ config.shared /\ config.filtering[P] /\ ~config.filtering[S]
  /\ config.implementation \in Implementations

\* C7 as stated: an invalid implementation value fails construction whatever
\* the filtering flags are.
C7_InvalidAlwaysRejected ==
  (pc # "new" /\ config.implementation \notin Implementations) => pc = "config_error"

\* C7 as amended: an invalid implementation value fails construction when
\* filtering is enabled for some slot; when it is enabled for none, the value
\* is not validated, construction succeeds and the sampler does not store it.
\* No constructed sampler holds an invalid implementation.
C7_InvalidRejectedWhenFiltering ==
  pc # "new" =>
    /\ (config.implementation \notin Implementations /\ \E sl \in SLOTS : config.filtering[sl])
         => pc = "config_error"
    /\ (config.implementation \notin Implementations /\ \A sl \in SLOTS : ~config.filtering[sl])
         => (pc = "ready" /\ filter_implementation = "unset")
    /\ pc = "ready" => filter_implementation \in Implementations \cup {"unset"}

\* Construction with an invalid implementation, one filtered slot and no
\* shared sampling has failed.
C7_Witness ==
  /\ pc = "config_error" /\ config.implementation \notin Implementations
  /\ ~config.shared /\ config.filtering[P] /\ ~config.filtering[S] /\ ~config.filtering[O]

\* C8: after a successful construction a negative subject count is the
\* configured object count when that is positive, else 0; a negative object
\* count is the configured subject count when that is positive, else 0; a
\* negative predicate count is 0; other counts are as configured; all are >= 0.
C8_AutoDerivation ==
  pc = "ready" =>
    LET c == config.num_samples
    IN /\ num_samples[S] = IF c[S] < 0 THEN (IF c[O] > 0 THEN c[O] ELSE 0) ELSE c[S]
       /\ num_samples[O] = IF c[O] < 0 THEN (IF c[S] > 0 THEN c[S] ELSE 0) ELSE c[O]
       /\ num_samples[P] = IF c[P] < 0 THEN 0 ELSE c[P]
       /\ \A sl \in SLOTS : num_samples[sl] >= 0

\* Constructed from subject -1 and a positive object count: subject took it.
C8_Witness ==
  /\ pc = "ready" /\ config.num_samples[S] = -1 /\ config.num_samples[O] = MaxSamples
  /\ config.num_samples[P] = -1
  /\ num_samples[S] = MaxSamples /\ num_samples[P] = 0

\* C9: the matrix a sample call returns has one row per triple of the batch
\* and num_samples columns, the argument or else the slot's default.
C9_Shape ==
  pc = "returned" =>
    /\ Len(negative_samples) = Len(positive_triples)
    /\ \A r \in 1 .. Len(negative_samples) :
         /\ DOMAIN negative_samples[r] = 1 .. Len(negative_samples[r])
         /\ Len(negative_samples[r]) =
              IF arg_num_samples = None THEN num_samples[slot] ELSE arg_num_samples

\* A shared sampler returned a two-row matrix of the slot's default width.
C9_Witness ==
  /\ pc = "returned" /\ shared /\ arg_num_samples = None
  /\ Len(positive_triples) = 2 /\ Len(negative_samples[2]) = MaxSamples

\* C10: every value of the matrix of a call, raw or written by a filter loop,
\* is in [0, num_relations) for the predicate slot and in [0, num_entities)
\* for the subject and object slots.
C10_Range ==
  pc \in {"filter", "returned"} =>
    \A r \in 1 .. Len(negative_samples) :
      \A j \in 1 .. Len(negative_samples[r]) :
        /\ negative_samples[r][j] >= 0
        /\ negative_samples[r][j] < (IF slot = P THEN NumRelations ELSE num_entities)

\* A fast filter returned a row in which it replaced two values.
C10_Witness ==
  /\ pc = "returned" /\ path = "fast" /\ num_new = 2 /\ num_found = 2
  /\ slot = O

\* C11: a call on a shared sampler draws one vector of num_samples values,
\* once, runs no filter loop, and every row of the matrix it returns is that
\* vector.
C11_SharedBroadcast ==
  (pc = "returned" /\ shared) =>
    /\ raw_drawn = CallNumSamples
    /\ path = "none" /\ i = 0
    /\ Len(negative_samples) = Len(positive_triples)
    /\ \A r \in 1 .. Len(negative_samples) :
         /\ Len(negative_samples[r]) = CallNumSamples
         /\ negative_samples[r] = negative_samples[1]

\* A shared sampler returned two equal rows that hold two different values.
C11_Witness ==
  /\ pc = "returned" /\ shared /\ Len(negative_samples) = 2
  /\ Len(negative_samples[1]) = MaxSamples
  /\ negative_samples[1][1] # negative_samples[1][2]
  /\ negative_samples[2] = negative_samples[1]

\* C12: no step of a sample call changes the batch, the per-slot num_samples,
\* filter_positives, vocabulary_size or the alias tables; the only field a call
\* writes is filter_implementation, and only while it holds fast_if_available
\* and the slot of the call is filtered.
C12_SampleFrame ==
  [][pc # "new" =>
       /\ UNCHANGED <<strategy, shared, num_samples, filter_positives,
                      vocabulary_size, multinomials>>
       /\ (pc # "ready" /\ pc' # "ready" => positive_triples' = positive_triples)
       /\ (filter_implementation' # filter_implementation =>
             /\ filter_implementation = "fast_if_available"
             /\ filter_positives[slot]
             /\ pc = "filter" /\ pc' = "returned")]_vars

\* A frequency sampler resolved fast_if_available while its tables, counts and
\* two-row batch are what they were.
C12_Witness ==
  /\ pc = "returned" /\ strategy = "frequency" /\ branch = "try"
  /\ config.implementation = "fast_if_available" /\ filter_implementation = "standard"
  /\ Len(positive_triples) = 2 /\ Len(multinomials[slot]) = vocabulary_size[slot]

\* C13 as stated: a call with num_samples = 0 returns a matrix of batch_size
\* rows and no columns, draws nothing, resamples nothing and raises nothing,
\* whatever the slot, strategy and configuration.
C13_ZeroNeverRaises ==
  (pc \in {"filter", "returned", "raised"} /\ CallNumSamples = 0) =>
    /\ pc # "raised"
    /\ raw_drawn = 0 /\ num_new = 0 /\ num_remaining = 0
    /\ Len(negative_samples) = Len(positive_triples)
    /\ \A r \in 1 .. Len(negative_samples) : negative_samples[r] = << >>

\* C13: a call with num_samples = 0 draws no value and runs no resample
\* iteration; it returns a matrix of batch_size rows and no columns, except
\* on a frequency sampler configured with fast for a filtered slot, where it
\* raises the error of the missing fast path, and only there.
C13_ZeroSamples ==
  (pc \in {"filter", "returned", "raised"} /\ CallNumSamples = 0) =>
    /\ raw_drawn = 0 /\ num_new = 0 /\ num_remaining = 0
    /\ Len(negative_samples) = Len(positive_triples)
    /\ \A r \in 1 .. Len(negative_samples) : negative_samples[r] = << >>
    /\ (pc = "raised") <=>
         (strategy = "frequency" /\ filter_positives[slot]
            /\ filter_implementation = "fast")

\* The standard loop went over both rows of an empty matrix asked for with an
\* explicit 0 on a slot whose default is positive.
C13_Witness ==
  /\ pc = "returned" /\ path = "standard" /\ i = 2
  /\ arg_num_samples = 0 /\ num_samples[slot] > 0
  /\ negative_samples = << << >>, << >> >>

\* C14: from the same matrix, positives and draw the fast loop writes what the
\* standard loop writes: in the first iteration on the first row, where both
\* loops are in the same state, every draw gives the same row.
C14_FastEqualsStandard ==
  (pc = "filter" /\ i = 1 /\ num_found = 0 /\ num_remaining > 0) =>
    \A new_samples \in Draws :
      LET idx == TrueNegatives(new_samples, RowPositives(i))
      IN Len(idx) # 0 =>
           FastWrite(negative_samples[i], resample_idx, num_found, new_samples, idx)
             = StandardWrite(negative_samples[i], resample_idx, num_found,
                             new_samples, idx)

\* C15: filter_implementation is the configured value after construction; a
\* step changes it only from fast_if_available, to fast on a uniform sampler
\* and to standard on a frequency sampler, so it changes at most once and a
\* configured standard or fast never changes.
C15_ResolvedOnce ==
  [][/\ (pc = "new" /\ pc' = "ready" /\ AnyFilter(config) =>
           filter_implementation' = config.implementation)
     /\ (pc # "new" /\ filter_implementation' # filter_implementation =>
           /\ filter_implementation = "fast_if_available"
           /\ filter_implementation' =
                IF strategy = "uniform" THEN "fast" ELSE "standard")]_vars

\* A later call of a frequency sampler configured with fast_if_available took
\* the standard branch directly and returned with the field still standard.
C15_Witness ==
  /\ pc = "returned" /\ strategy = "frequency" /\ branch = "standard"
  /\ config.implementation = "fast_if_available" /\ filter_implementation = "standard"

\* C17: on a frequency sampler configured with fast, a sample call for a
\* filtered slot raises the error of the missing fast path: it has tried the
\* fast path, runs no standard loop, never returns, and filter_implementation
\* stays fast.
C17_ExplicitFastRaises ==
  (strategy = "frequency" /\ config.implementation = "fast" /\ AnyFilter(config)
     /\ pc \notin {"new", "config_error"}) =>
    /\ filter_implementation = "fast"
    /\ (pc # "ready" /\ filter_positives[slot]) =>
         (pc = "raised" /\ fast_tried /\ path = "none" /\ i = 0)

\* A call of such a sampler for a filtered slot raised, on a two-row batch.
C17_Witness ==
  /\ strategy = "frequency" /\ config.implementation = "fast"
  /\ pc = "raised" /\ filter_positives[slot] /\ Len(positive_triples) = 2
  /\ filter_implementation = "fast"

\* C19: construction asks the dataset for the index
\* <split>_<pair>_to_<slot> of exactly the filtered slots, with pair po, so, sp
\* for slot s, p, o; every lookup of a filter loop goes to the index of that
\* name, which was requested, with the key (p, o), (s, o) or (s, p) of the row.
C19_IndexAvailability ==
  LET pair == (S :> "po" @@ P :> "so" @@ O :> "sp")
      char == (S :> "s" @@ P :> "p" @@ O :> "o")
      name(sl) == <<"train", pair[sl], char[sl]>>
      key(sl, t) == IF sl = S THEN <<t[P], t[O]>>
                    ELSE IF sl = P THEN <<t[S], t[O]>> ELSE <<t[S], t[P]>>
  IN /\ pc # "new" =>
          requested = {name(sl) : sl \in {x \in SLOTS : config.filtering[x]}}
     /\ (pc = "filter" /\ i > 0) =>
          /\ index_query.name = name(slot)
          /\ index_query.name \in requested
          /\ index_query.key = key(slot, positive_triples[i])

\* A sampler that filters the predicate slot only looks up the so index for
\* the second row of a batch.
C19_Witness ==
  /\ pc = "filter" /\ i = 2 /\ slot = P
  /\ ~config.filtering[S] /\ ~config.filtering[O]
  /\ requested = {<<"train", "so", "p">>}
  /\ index_query.key = <<positive_triples[2][S], positive_triples[2][O]>>

\* C16: on both paths a step of the filter changes an entry only in the
\* current row, at a colliding position that is not yet resolved, whose value
\* is in the row's positives; the colliding positions are found on the row as
\* it was drawn.  So an entry that is not in P_i stays where it was drawn.
C16_OnlyCollidingTouched ==
  [][(pc = "filter" /\ pc' \in {"filter", "returned"}) =>
       /\ \A r \in 1 .. Len(negative_samples) :
            \A j \in 1 .. Len(negative_samples[r]) :
              negative_samples'[r][j] # negative_samples[r][j] =>
                /\ r = i
                /\ negative_samples[r][j] \in RowPositives(r)
                /\ \E k \in (num_found + 1) .. num_new : resample_idx[k] = j
       /\ i' # i =>
            /\ negative_samples' = negative_samples
            /\ \A j \in 1 .. Len(negative_samples[i']) :
                 (negative_samples[i'][j] \in RowPositives(i'))
                   <=> (\E k \in 1 .. Len(resample_idx') : resample_idx'[k] = j)]_vars

\* A row of two entries, one colliding and resolved with a value outside the
\* positives, the other never a collision.
C16_Witness ==
  /\ pc = "filter" /\ i > 0 /\ num_new = 1 /\ num_found = 1
  /\ Len(negative_samples[i]) = 2
  /\ \A j \in 1 .. 2 : negative_samples[i][j] \notin RowPositives(i)
  /\ negative_samples[i][1] # negative_samples[i][2]

\* C20: at every head of the standard loop on row i, num_remaining is
\* num_new - num_found, 0 <= num_found <= num_new, and the first num_found
\* colliding positions hold values outside P_i; an iteration draws exactly
\* num_remaining candidates, accepts at most that many, adds their number to
\* num_found and writes them, in the order drawn, at the next unresolved
\* colliding positions, leaving every other entry of the row alone.
C20_StandardLoop ==
  [][(pc = "filter" /\ path = "standard" /\ i > 0) =>
       /\ num_new = Len(resample_idx)
       /\ num_remaining = num_new - num_found
       /\ 0 <= num_found /\ num_found <= num_new
       /\ \A k \in 1 .. num_found :
            negative_samples[i][resample_idx[k]] \notin RowPositives(i)
       /\ \A new_samples \in Draws :
            Resample(new_samples) =>
              LET Accepted(v) == v \notin RowPositives(i)
                  acc == SelectSeq(new_samples, Accepted)
              IN /\ Len(new_samples) = num_new - num_found
                 /\ Len(acc) <= num_new - num_found
                 /\ num_found' = num_found + Len(acc)
                 /\ num_found' >= num_found /\ num_found' <= num_new
                 /\ \A k \in 1 .. Len(acc) :
                      negative_samples'[i][resample_idx[num_found + k]] = acc[k]
                 /\ \A j \in 1 .. Len(negative_samples[i]) :
                      (\A k \in 1 .. Len(acc) : resample_idx[num_found + k] # j)
                        => negative_samples'[i][j] = negative_samples[i][j]]_vars

\* The standard loop resolved both colliding positions of a row with two
\* different accepted candidates.
C20_Witness ==
  /\ pc = "filter" /\ path = "standard" /\ i > 0
  /\ num_new = 2 /\ num_found = 2 /\ num_remaining = 0
  /\ negative_samples[i][resample_idx[1]] = 2
  /\ negative_samples[i][resample_idx[2]] = 1

\* C18: when threads call sample concurrently on a sampler configured with
\* fast_if_available, in every interleaving of their reads and writes of
\* filter_implementation no call raises, every call filters with a loop its
\* strategy has (a frequency sampler with the standard loop only), the field
\* holds fast_if_available or the value one call alone resolves to (fast on
\* uniform, standard on frequency), and when no call is in flight and a call
\* has filtered it holds that value.
C18_BenignRace ==
  (config.implementation = "fast_if_available" /\ pc = "ready") =>
    LET resolved == IF strategy = "uniform" THEN "fast" ELSE "standard"
    IN /\ filter_implementation \in {"fast_if_available", "fast", "standard"}
       /\ filter_implementation \in {"fast_if_available", resolved}
       /\ \A t \in Threads :
            /\ tpc[t] # "raised"
            /\ tused[t] \in {"none", "standard", "fast"}
            /\ (tused[t] = "fast" => strategy = "uniform")
            /\ (tpc[t] = "write" => tused[t] # "none")
       /\ ((\A t \in Threads : tpc[t] \in {"idle", "returned"})
             /\ (\E t \in Threads : tused[t] # "none"))
            => filter_implementation = resolved

\* Two calls raced: both read fast_if_available and tried; one has written and
\* returned, the other has filtered and is about to write again.
C18_Witness ==
  /\ config.implementation = "fast_if_available" /\ pc = "ready"
  /\ \E t \in Threads, u \in Threads :
       /\ t # u
       /\ tpc[t] = "returned" /\ tused[t] # "none"
       /\ tpc[u] = "write" /\ tused[u] = tused[t]
  /\ filter_implementation # "fast_if_available"

====
